---- MODULE Spec2Model ----
(***************************************************************************)
(* Favicon resolution and caching engine of the bookmark workspace new-tab *)
(* page: candidate generator, resolution cache (localStorage) and the      *)
(* resolution driver of NewTab.tsx.                                        *)
(*                                                                         *)
(* Strings of the program are modelled as sequences of tokens: a hostname  *)
(* is the sequence of its dot-separated labels, an address is the sequence *)
(* of the literal pieces and labels it is built from, and the empty string *)
(* is the empty sequence.                                                  *)
(***************************************************************************)
EXTENDS Integers, Sequences, FiniteSets, TLC

VARIABLES
    store,             \* localStorage[CACHE_KEY]: the entries in key (insertion) order
    now,               \* Date.now()
    ticks,             \* number of clock advances so far
    env,               \* import.meta.env.VITE_FAVICON_PROVIDER
    faviconIndexById,  \* React state of NewTab: link id -> attempt index
    errs,              \* per link: onFaviconError calls since the counter was fresh
    fails,             \* per link: rememberFaviconFailure calls made by onFaviconError this session
    last,              \* the last call: operation, arguments, returned value
    ctx,               \* per browsing context: the mutating call it is in the middle of
    blob,              \* what the text of localStorage[CACHE_KEY] is: a domain map or something else
    ui                 \* the bookmark tree, the delete dialog, the inline editor, the last chrome.bookmarks call

vars == <<store, now, ticks, env, faviconIndexById, errs, fails, last, ctx, blob, ui>>

----------------------------------------------------------------------------
(* Program constants. The TTLs are the program's; MAX_ENTRIES is scaled    *)
(* down from 500 so that the eviction cases are reachable.                 *)

SUCCESS_TTL_MS == 7 * 24 * 60 * 60 * 1000
FAILURE_TTL_MS == 10 * 60 * 1000
MAX_ENTRIES == 2
DEFAULT_SIZE == 32

(* Bounds of the model. *)
MaxTicks == 2
MaxFailCalls == 2
MaxCreated == 2

(* Time is counted in ms from an epoch shortly before the first page load;  *)
(* the clock advances by one of these steps, up to a horizon that lets an    *)
(* entry of either kind be written late and still expire.                    *)
StartTime == FAILURE_TTL_MS
ClockSteps == {1, FAILURE_TTL_MS, SUCCESS_TTL_MS}
PageClockSteps == {FAILURE_TTL_MS + 1, SUCCESS_TTL_MS + 1}
Horizon == StartTime + 2 * SUCCESS_TTL_MS + 2 * FAILURE_TTL_MS

----------------------------------------------------------------------------
(* Values *)

EmptyString == <<>>
Null == <<"null">>    \* JavaScript null, distinct from every string

Absent == [kind |-> "undefined", host |-> <<>>, path |-> ""]
EmptyUrl == [kind |-> "empty", host |-> <<>>, path |-> ""]
Garbage == [kind |-> "unparseable", host |-> <<>>, path |-> "not a url"]
Url(host, path) == [kind |-> "url", host |-> host, path |-> path]

\* URLs the cache operations are called with
CacheUrls ==
    { Url(<<"www", "a", "com">>, "/x"),
      Url(<<"A", "com">>, "/y?q=1"),
      Url(<<"b", "org">>, "/"),
      Url(<<"c", "net">>, "/"),
      Absent,
      Garbage }

\* URLs the candidate generator is called with
GenUrls ==
    CacheUrls \cup
    { EmptyUrl,
      Url(<<"a", "com">>, "/"),
      Url(<<"WWW", "b", "org">>, "/x"),
      Url(<<"www", "www", "c", "net">>, "/"),
      Url(<<"www", "a", "com">>, "/other"),
      Url(<<"b", "org">>, "/y"),
      Url(<<"www">>, "/"),
      Url(<<"[::1]">>, "/"),
      Url(<<>>, "/etc/hosts") }

\* values of VITE_FAVICON_PROVIDER
EnvValues == {"", "chain", "direct", "google", "Google", "duckduckgo", "raycast", "none"}

TabIcon == <<"https://cdn.example/tab.png">>

----------------------------------------------------------------------------
(* String helpers *)

toLowerCase(s) ==
    CASE s = "WWW" -> "www"
      [] s = "A" -> "a"
      [] s = "Google" -> "google"
      [] OTHER -> s

RECURSIVE MapLower(_)
MapLower(labels) ==
    IF labels = <<>> THEN <<>>
    ELSE <<toLowerCase(Head(labels))>> \o MapLower(Tail(labels))

\* Faulty variant: the host keeps the case it was written in
hostname_caseKept(url) == url.host

\* new URL(url).hostname: throws for an unparseable string; the host is lower-cased
Parses(url) == url.kind = "url"
hostname(url) == MapLower(url.host)

\* Faulty variant: the leading "www." is kept
StripWww_kept(labels) == labels

\* .replace(/^www\./, ''): removes one leading "www." (a label followed by a dot)
StripWww(labels) ==
    IF Len(labels) > 1 /\ Head(labels) = "www" THEN Tail(labels) ELSE labels

encodeLabel(l) == IF l = "[::1]" THEN "%5B%3A%3A1%5D" ELSE l

RECURSIVE encodeURIComponent(_)
encodeURIComponent(labels) ==
    IF labels = <<>> THEN <<>>
    ELSE <<encodeLabel(Head(labels))>> \o encodeURIComponent(Tail(labels))

----------------------------------------------------------------------------
(* favicon-resolver.ts *)

getProvider(raw0) ==
    LET raw == toLowerCase(IF raw0 = "" THEN "chain" ELSE raw0)
    IN  IF raw \in {"raycast", "google", "duckduckgo", "direct", "chain"}
        THEN raw
        ELSE "chain"

getDomain(url) ==
    IF url.kind \in {"undefined", "empty"} THEN EmptyString
    ELSE IF Parses(url) THEN StripWww(hostname(url))
    ELSE EmptyString

\* Faulty variant: the lookup services come before the site's own addresses
Chain_thirdPartyFirst(direct, google, duck, raycast) == google \o duck \o raycast \o direct

\* [...direct, ...google, ...duck, ...raycast]
Chain(direct, google, duck, raycast) == direct \o google \o duck \o raycast

getFaviconCandidates(url, rawEnv) ==
    IF url.kind \in {"undefined", "empty"} THEN <<>>
    ELSE
    LET domain == getDomain(url) IN
    IF domain = EmptyString THEN <<>>
    ELSE
    LET encoded == encodeURIComponent(domain)
        direct == << <<"https://">> \o domain \o <<"/favicon.ico">>,
                     <<"https://">> \o domain \o <<"/apple-touch-icon.png">> >>
        google == << <<"https://www.google.com/s2/favicons?domain=">> \o encoded
                          \o <<"&sz=", ToString(DEFAULT_SIZE)>> >>
        duck == << <<"https://icons.duckduckgo.com/ip3/">> \o encoded \o <<".ico">> >>
        raycast == << <<"https://api.ray.so/favicon?url=">> \o encoded
                          \o <<"&size=", ToString(DEFAULT_SIZE)>> >>
        provider == getProvider(rawEnv)
    IN  CASE provider = "direct" -> direct
          [] provider = "google" -> google
          [] provider = "duckduckgo" -> duck
          [] provider = "raycast" -> raycast
          [] OTHER -> Chain(direct, google, duck, raycast)

\* cache[domain]
HasKey(cache, domain) == \E i \in 1..Len(cache) : cache[i].domain = domain
IndexOf(cache, domain) == CHOOSE i \in 1..Len(cache) : cache[i].domain = domain
Lookup(cache, domain) == cache[IndexOf(cache, domain)]

\* Faulty variant: the value is added without looking for the key
Assign_append(cache, value) == Append(cache, value)

\* cache[domain] = value: an existing key keeps its position, a new key goes last
Assign(cache, value) ==
    IF HasKey(cache, value.domain)
    THEN [cache EXCEPT ![IndexOf(cache, value.domain)] = value]
    ELSE Append(cache, value)

\* delete cache[domain]
Delete(cache, domain) ==
    IF HasKey(cache, domain)
    THEN LET i == IndexOf(cache, domain)
         IN  SubSeq(cache, 1, i - 1) \o SubSeq(cache, i + 1, Len(cache))
    ELSE cache

\* (a[1].at || 0)
SortKey(e) == IF e.at = 0 THEN 0 ELSE e.at

\* Faulty variant: the entries are not sorted before the slice (eviction in key order)
SortByAt_unsorted(entries) == entries

\* Array.prototype.sort with the comparator of pruneCache: stable, ascending
RECURSIVE InsertSorted(_, _)
InsertSorted(sorted, e) ==
    IF sorted = <<>> THEN <<e>>
    ELSE IF SortKey(sorted[Len(sorted)]) - SortKey(e) > 0
         THEN Append(InsertSorted(SubSeq(sorted, 1, Len(sorted) - 1), e), sorted[Len(sorted)])
         ELSE Append(sorted, e)

\* Faulty variant: a sort that is not stable (entries of equal at come out in the
\* reverse of their key order)
RECURSIVE SortByAt_tiesReversed(_)
SortByAt_tiesReversed(entries) ==
    IF entries = <<>> THEN <<>>
    ELSE InsertSorted(SortByAt_tiesReversed(Tail(entries)), Head(entries))

RECURSIVE SortByAt(_)
SortByAt(entries) ==
    IF entries = <<>> THEN <<>>
    ELSE InsertSorted(SortByAt(SubSeq(entries, 1, Len(entries) - 1)), entries[Len(entries)])

\* Faulty variant: the slice keeps one entry too many
pruneCache_offByOne(cache) ==
    IF Len(cache) <= MAX_ENTRIES + 1 THEN cache
    ELSE SubSeq(cache, Len(cache) - MAX_ENTRIES, Len(cache))

pruneCache(cache) ==
    IF Len(cache) <= MAX_ENTRIES THEN cache
    ELSE LET entries == SortByAt(cache)
         IN  SubSeq(entries, Len(entries) - MAX_ENTRIES + 1, Len(entries))

\* Faulty variant: an entry expires when its age reaches the TTL
isExpired_atTtl(entry, t) ==
    LET ttl == IF entry.ok THEN SUCCESS_TTL_MS ELSE FAILURE_TTL_MS
    IN  t - entry.at >= ttl

\* Faulty variant: the two TTLs are taken for each other
isExpired_swapped(entry, t) ==
    LET ttl == IF entry.ok THEN FAILURE_TTL_MS ELSE SUCCESS_TTL_MS
    IN  t - entry.at > ttl

isExpired(entry, t) ==
    LET ttl == IF entry.ok THEN SUCCESS_TTL_MS ELSE FAILURE_TTL_MS
    IN  t - entry.at > ttl

\* Faulty variant: a read sweeps every expired entry, not only the one it asked for
StoreAfterRead_sweepAll(cache, url, t) ==
    IF getDomain(url) = EmptyString THEN cache
    ELSE SelectSeq(cache, LAMBDA e : ~isExpired(e, t))

\* Faulty variant: an expired entry is reported absent but left in the store
StoreAfterRead_noDelete(cache, url, t) == cache

\* The store after getCachedFavicon / isNegativeFaviconCached (same read path)
StoreAfterRead(cache, url, t) ==
    LET domain == getDomain(url) IN
    IF domain = EmptyString THEN cache
    ELSE IF ~HasKey(cache, domain) THEN cache
    ELSE IF isExpired(Lookup(cache, domain), t) THEN Delete(cache, domain)
    ELSE cache

\* Faulty variant: the ok flag is not looked at
getCachedFavicon_ignoresOk(cache, url, t) ==
    LET domain == getDomain(url) IN
    IF domain = EmptyString THEN Null
    ELSE IF ~HasKey(cache, domain) THEN Null
    ELSE LET entry == Lookup(cache, domain)
         IN  IF isExpired(entry, t) THEN Null ELSE entry.src

getCachedFavicon(cache, url, t) ==
    LET domain == getDomain(url) IN
    IF domain = EmptyString THEN Null
    ELSE IF ~HasKey(cache, domain) THEN Null
    ELSE LET entry == Lookup(cache, domain)
         IN  IF isExpired(entry, t) THEN Null
             ELSE IF entry.ok THEN entry.src ELSE Null

\* Faulty variant: expiry is not checked
isNegativeFaviconCached_noExpiry(cache, url, t) ==
    LET domain == getDomain(url) IN
    IF domain = EmptyString THEN FALSE
    ELSE IF ~HasKey(cache, domain) THEN FALSE
    ELSE ~Lookup(cache, domain).ok

isNegativeFaviconCached(cache, url, t) ==
    LET domain == getDomain(url) IN
    IF domain = EmptyString THEN FALSE
    ELSE IF ~HasKey(cache, domain) THEN FALSE
    ELSE LET entry == Lookup(cache, domain)
         IN  IF isExpired(entry, t) THEN FALSE
             ELSE ~entry.ok

\* Faulty variant: the empty address is not rejected
rememberFavicon_noSrcCheck(cache, url, src, provider, t) ==
    LET domain == getDomain(url) IN
    IF domain = EmptyString THEN cache
    ELSE pruneCache(Assign(cache,
            [domain |-> domain, src |-> src, at |-> t, ok |-> TRUE, provider |-> provider]))

\* The store after rememberFavicon(url, src, provider)
rememberFavicon(cache, url, src, provider, t) ==
    LET domain == getDomain(url) IN
    IF domain = EmptyString \/ src = EmptyString THEN cache
    ELSE pruneCache(Assign(cache,
            [domain |-> domain, src |-> src, at |-> t, ok |-> TRUE, provider |-> provider]))

\* Faulty variant: nothing is stored
rememberFaviconFailure_noWrite(cache, url, provider, t) == cache

\* Faulty variant: the failure is flagged on the entry the domain already has
rememberFaviconFailure_keepsSrc(cache, url, provider, t) ==
    LET domain == getDomain(url) IN
    IF domain = EmptyString THEN cache
    ELSE pruneCache(Assign(cache,
            [domain |-> domain,
             src |-> IF HasKey(cache, domain) THEN Lookup(cache, domain).src ELSE EmptyString,
             at |-> t, ok |-> FALSE, provider |-> provider]))

\* The store after rememberFaviconFailure(url, provider)
rememberFaviconFailure(cache, url, provider, t) ==
    LET domain == getDomain(url) IN
    IF domain = EmptyString THEN cache
    ELSE pruneCache(Assign(cache,
            [domain |-> domain, src |-> EmptyString, at |-> t, ok |-> FALSE, provider |-> provider]))

----------------------------------------------------------------------------
(* NewTab.tsx: the links on the board *)

\* l1 is a bookmark with a URL, l2 a node without one
LinkIds == {"l1", "l2"}

LinkUrl(id) ==
    CASE id = "l1" -> Url(<<"www", "a", "com">>, "/x")
      [] OTHER -> Absent

NoLink == "-"

\* Two pages of the extension open at once, sharing localStorage
Contexts == {"tab1", "tab2"}

Idle == [pc |-> "idle", snap |-> <<>>, url |-> Absent, src |-> EmptyString, ok |-> FALSE, at |-> 0]

\* The bookmark tree under the root folder: two workspaces, a collection in each,
\* two bookmarks in the first collection; the ids above 100 are those of the
\* bookmarks created later
Workspaces == {1, 2}
Collections == {11, 12}
Bookmarks == {21, 22}
CreatedIds == {100 + k : k \in 1..MaxCreated}
NodeIds == Workspaces \cup Collections \cup Bookmarks \cup CreatedIds

NoTarget == [kind |-> "none", id |-> 0]
NoEdit == [id |-> 0, parentId |-> 0]
ApiCall(fn, id, confirmed) == [fn |-> fn, id |-> id, confirmed |-> confirmed]

\* what a call of a consent wrapper came to: the answer of window.confirm and the
\* value returned ("threw" when the promise of the delete call was rejected)
Result(fn, id, answer, ret) == [fn |-> fn, id |-> id, answer |-> answer, ret |-> ret]

\* the saveBookmarkEdit call in flight or last made: the bookmark it edits, the id of
\* the replacement, what the user had changed, and which of its two calls of
\* chrome.bookmarks have completed
NoSave ==
    [pc |-> "idle", old |-> 0, new |-> 0, emptyUrl |-> FALSE, changed |-> FALSE,
     created |-> FALSE, removed |-> FALSE]

InitUi ==
    [ nodes |-> Collections \cup Bookmarks,
      parentOf |-> [n \in NodeIds |->
                      CASE n = 11 -> 1
                        [] n = 12 -> 2
                        [] n \in Bookmarks -> 11
                        [] OTHER -> 0],
      created |-> 0,
      deleteTarget |-> NoTarget,
      editingBookmark |-> NoEdit,
      api |-> ApiCall("none", 0, FALSE),
      result |-> Result("none", 0, FALSE, "none"),
      editingBookmarkBusy |-> FALSE,
      save |-> NoSave ]

\* Record of a call: nfail is the number of rememberFaviconFailure calls it made,
\* dropped the keys that were in the map the call worked on and are not in the store after it
Call(op, link, url, ret, nfail, dropped) ==
    [op |-> op, link |-> link, url |-> url, ret |-> ret, nfail |-> nfail, dropped |-> dropped]

Keys(cache) == {cache[i].domain : i \in 1..Len(cache)}

\* the keys a write of url loses, for a write that is not a no-op
DroppedByWrite(cache, url, after) == (Keys(cache) \cup {getDomain(url)}) \ Keys(after)

----------------------------------------------------------------------------
(* Initial state: first page load after installation *)

InitWith(envs) ==
    /\ store = <<>>
    /\ now = StartTime
    /\ ticks = 0
    /\ env \in envs
    /\ faviconIndexById = [id \in {} |-> 0]
    /\ errs = [l \in LinkIds |-> 0]
    /\ fails = [l \in LinkIds |-> 0]
    /\ last = Call("init", NoLink, Absent, Null, 0, {})
    /\ ctx = [c \in Contexts |-> Idle]
    /\ blob = "map"
    /\ ui = InitUi

driverVars == <<env, faviconIndexById, errs, fails>>

\* Time passes between two calls
Tick(steps) ==
    /\ ticks < MaxTicks
    /\ \E d \in steps : now + d <= Horizon /\ now' = now + d
    /\ ticks' = ticks + 1
    /\ last' = Call("tick", NoLink, Absent, Null, 0, {})
    /\ UNCHANGED <<ui, blob, ctx, store, driverVars>>

----------------------------------------------------------------------------
(* The cache operations called directly *)

GetCachedFavicon(url) ==
    /\ store' = StoreAfterRead(store, url, now)
    /\ last' = Call("getCachedFavicon", NoLink, url, getCachedFavicon(store, url, now), 0,
                     Keys(store) \ Keys(store'))
    /\ UNCHANGED <<ui, blob, ctx, now, ticks, driverVars>>

IsNegativeFaviconCached(url) ==
    /\ store' = StoreAfterRead(store, url, now)
    /\ last' = Call("isNegativeFaviconCached", NoLink, url,
                     isNegativeFaviconCached(store, url, now), 0, Keys(store) \ Keys(store'))
    /\ UNCHANGED <<ui, blob, ctx, now, ticks, driverVars>>

RememberFavicon(url, src, provider) ==
    /\ store' = rememberFavicon(store, url, src, provider, now)
    /\ last' = Call("rememberFavicon", NoLink, url, src, 0,
                     IF store' = store THEN {} ELSE DroppedByWrite(store, url, store'))
    /\ UNCHANGED <<ui, blob, ctx, now, ticks, driverVars>>

RememberFaviconFailure(url) ==
    /\ store' = rememberFaviconFailure(store, url, "chain-exhausted", now)
    /\ last' = Call("rememberFaviconFailure", NoLink, url, EmptyString, 0,
                     IF store' = store THEN {} ELSE DroppedByWrite(store, url, store'))
    /\ UNCHANGED <<ui, blob, ctx, now, ticks, driverVars>>

NextCache ==
    \/ Tick(ClockSteps)
    \/ \E url \in CacheUrls : GetCachedFavicon(url)
    \/ \E url \in CacheUrls : IsNegativeFaviconCached(url)
    \/ \E url \in CacheUrls, src \in {TabIcon, EmptyString} : RememberFavicon(url, src, "unknown")
    \/ \E url \in CacheUrls : RememberFaviconFailure(url)

InitCache == InitWith({""})

SpecCache == InitCache /\ [][NextCache]_vars

----------------------------------------------------------------------------
(* Two contexts: a mutating call is localStorage.getItem, then the update of  *)
(* the parsed copy, then localStorage.setItem of the whole map; the other     *)
(* context may run between the getItem and the setItem.                       *)

\* readCache() and the evaluation of Date.now() of rememberFavicon
BeginRememberFavicon(c, url, src) ==
    /\ ctx[c].pc = "idle"
    /\ getDomain(url) # EmptyString /\ src # EmptyString
    /\ ctx' = [ctx EXCEPT ![c] =
                 [pc |-> "write", snap |-> store, url |-> url, src |-> src, ok |-> TRUE, at |-> now]]
    /\ last' = Call("readCache", c, url, src, 0, {})
    /\ UNCHANGED <<ui, blob, store, now, ticks, driverVars>>

\* readCache() and the evaluation of Date.now() of rememberFaviconFailure
BeginRememberFaviconFailure(c, url) ==
    /\ ctx[c].pc = "idle"
    /\ getDomain(url) # EmptyString
    /\ ctx' = [ctx EXCEPT ![c] =
                 [pc |-> "write", snap |-> store, url |-> url, src |-> EmptyString, ok |-> FALSE, at |-> now]]
    /\ last' = Call("readCache", c, url, EmptyString, 0, {})
    /\ UNCHANGED <<ui, blob, store, now, ticks, driverVars>>

\* Faulty variant: the written entries are added to the persisted value
WriteBack_append(written, persisted) == persisted \o written

\* Faulty variant: the keys the persisted map has and the written map lacks are kept
WriteBack_merge(written, persisted) ==
    pruneCache(written \o SelectSeq(persisted, LAMBDA e : ~HasKey(written, e.domain)))

\* localStorage.setItem(CACHE_KEY, JSON.stringify(cache)): the whole value is replaced
WriteBack(written, persisted) == written

\* writeCache(pruneCache(next)) of the call the context is in
FinishRemember(c) ==
    /\ ctx[c].pc = "write"
    /\ store' = WriteBack(
                   IF ctx[c].ok
                   THEN rememberFavicon(ctx[c].snap, ctx[c].url, ctx[c].src, "unknown", ctx[c].at)
                   ELSE rememberFaviconFailure(ctx[c].snap, ctx[c].url, "chain-exhausted", ctx[c].at),
                   store)
    /\ ctx' = [ctx EXCEPT ![c] = Idle]
    /\ last' = Call("writeCache", c, ctx[c].url, ctx[c].src, 0, Keys(store) \ Keys(store'))
    /\ UNCHANGED <<ui, blob, now, ticks, driverVars>>

RaceUrls == {Url(<<"www", "a", "com">>, "/x"), Url(<<"b", "org">>, "/"), Url(<<"c", "net">>, "/")}

\* The clock stands still here: the interleaving of the two contexts is what is
\* explored, every entry carries the same timestamp and nothing expires.
NextRace ==
    \/ \E c \in Contexts, url \in RaceUrls : BeginRememberFavicon(c, url, TabIcon)
    \/ \E c \in Contexts, url \in RaceUrls : BeginRememberFaviconFailure(c, url)
    \/ \E c \in Contexts : FinishRemember(c)

SpecRace == InitCache /\ [][NextRace]_vars

----------------------------------------------------------------------------
(* NewTab.tsx: the resolution driver *)

Max(a, b) == IF a >= b THEN a ELSE b
Min(a, b) == IF a <= b THEN a ELSE b

\* candidates[i] of a 0-based index, undefined (falsy) out of range
At0(candidates, i) ==
    IF i >= 0 /\ i < Len(candidates) THEN candidates[i + 1] ELSE EmptyString

\* faviconIndexById[link.id] ?? 0
IndexOfLink(id) == IF id \in DOMAIN faviconIndexById THEN faviconIndexById[id] ELSE 0

\* the value getFaviconSrc returns
getFaviconSrc(id, cache, t) ==
    LET candidates == getFaviconCandidates(LinkUrl(id), env)
        cached == getCachedFavicon(cache, LinkUrl(id), t)
        index == IndexOfLink(id)
    IN  IF cached # Null /\ cached # EmptyString THEN cached
        ELSE IF At0(candidates, index) # EmptyString THEN At0(candidates, index)
        ELSE IF At0(candidates, 0) # EmptyString THEN At0(candidates, 0)
        ELSE EmptyString

GetFaviconSrc(id) ==
    /\ store' = StoreAfterRead(store, LinkUrl(id), now)
    /\ last' = Call("getFaviconSrc", id, LinkUrl(id), getFaviconSrc(id, store, now), 0,
                     Keys(store) \ Keys(store'))
    /\ UNCHANGED <<ui, blob, ctx, now, ticks, driverVars>>

\* Faulty variant: the failure is recorded one candidate early
Exhausts_early(nextIndex, candidates) == nextIndex >= Max(0, Len(candidates) - 1)

\* nextIndex > Math.max(0, candidates.length - 1)
Exhausts(nextIndex, candidates) == nextIndex > Max(0, Len(candidates) - 1)

\* Faulty variant: past the last candidate the counter starts again at the first
ClampIndex_wraps(nextIndex, candidates) ==
    IF nextIndex > Max(0, Len(candidates) - 1) THEN 0 ELSE nextIndex

\* Faulty variant: the counter is not clamped
ClampIndex_unclamped(nextIndex, candidates) == nextIndex

\* Math.min(nextIndex, Math.max(0, candidates.length - 1))
ClampIndex(nextIndex, candidates) == Min(nextIndex, Max(0, Len(candidates) - 1))

\* Faulty variant: one counter for all the links
SetIndex_shared(prev, id, value) == [x \in DOMAIN prev \cup {id} |-> value]

\* const next = { ...prev }; next[link.id] = value; return next
SetIndex(prev, id, value) ==
    [x \in DOMAIN prev \cup {id} |-> IF x = id THEN value ELSE prev[x]]

OnFaviconError(id) ==
    LET candidates == getFaviconCandidates(LinkUrl(id), env)
        nextIndex == IndexOfLink(id) + 1
        failed == Exhausts(nextIndex, candidates)
        clamped == ClampIndex(nextIndex, candidates)
    IN  /\ fails[id] < MaxFailCalls
        /\ store' = IF failed
                    THEN rememberFaviconFailure(store, LinkUrl(id), "chain-exhausted", now)
                    ELSE store
        /\ faviconIndexById' = SetIndex(faviconIndexById, id, clamped)
        /\ errs' = [errs EXCEPT ![id] = @ + 1]
        /\ fails' = [fails EXCEPT ![id] = IF failed THEN @ + 1 ELSE @]
        /\ last' = Call("onFaviconError", id, LinkUrl(id), EmptyString,
                         IF failed THEN 1 ELSE 0,
                         IF store' = store THEN {} ELSE DroppedByWrite(store, LinkUrl(id), store'))
        /\ UNCHANGED <<ui, blob, ctx, now, ticks, env>>

\* the src of the img element of the link: the cached address or the candidate tried
ShownSrcs(id) ==
    LET candidates == getFaviconCandidates(LinkUrl(id), env)
        cached == getCachedFavicon(store, LinkUrl(id), now)
    IN  {At0(candidates, IndexOfLink(id))} \cup (IF cached # Null THEN {cached} ELSE {})

\* onLoad of the img element
OnFaviconLoad(id, src) ==
    /\ store' = rememberFavicon(store, LinkUrl(id), src, "unknown", now)
    /\ last' = Call("onFaviconLoad", id, LinkUrl(id), src, 0,
                     IF store' = store THEN {} ELSE DroppedByWrite(store, LinkUrl(id), store'))
    /\ UNCHANGED <<ui, blob, ctx, now, ticks, driverVars>>

\* onDropTabToCollection: a tab with a favIconUrl is saved as a bookmark
OnDropTabToCollection(url, favIconUrl) ==
    /\ url.kind # "undefined" /\ url.kind # "empty"
    /\ favIconUrl # EmptyString
    /\ store' = rememberFavicon(store, url, favIconUrl, "tab-favicon", now)
    /\ last' = Call("onDropTabToCollection", NoLink, url, favIconUrl, 0,
                     IF store' = store THEN {} ELSE DroppedByWrite(store, url, store'))
    /\ UNCHANGED <<ui, blob, ctx, now, ticks, driverVars>>

\* The page is loaded again: the React state is fresh, localStorage persists
Reload ==
    /\ faviconIndexById' = [id \in {} |-> 0]
    /\ errs' = [l \in LinkIds |-> 0]
    /\ fails' = [l \in LinkIds |-> 0]
    /\ last' = Call("reload", NoLink, Absent, Null, 0, {})
    /\ UNCHANGED <<ui, blob, ctx, store, now, ticks, env>>

TabUrls == {Url(<<"b", "org">>, "/"), Url(<<"c", "net">>, "/")}

Next ==
    \/ Tick(PageClockSteps)
    \/ \E id \in LinkIds : GetFaviconSrc(id)
    \/ \E id \in LinkIds : OnFaviconError(id)
    \/ \E id \in LinkIds : \E src \in ShownSrcs(id) : OnFaviconLoad(id, src)
    \/ \E url \in TabUrls : OnDropTabToCollection(url, TabIcon)
    \/ Reload

Init == InitWith({"", "direct", "Google"})

Spec == Init /\ [][Next]_vars

\* The driver together with the two reads of the cache called directly
NextReads ==
    \/ Next
    \/ \E url \in TabUrls \cup {LinkUrl("l1")} : GetCachedFavicon(url)
    \/ \E url \in TabUrls \cup {LinkUrl("l1")} : IsNegativeFaviconCached(url)

SpecReads == InitWith({"direct"}) /\ [][NextReads]_vars

\* One session in which no image of a link ever loads: the img element keeps firing
\* onError for the link with a URL for as long as the page reacts to it
NextFailing ==
    \/ Tick({FAILURE_TTL_MS + 1})
    \/ \E id \in LinkIds : GetFaviconSrc(id)
    \/ \E id \in LinkIds : OnFaviconError(id)

SpecFailing == Init /\ [][NextFailing]_vars /\ WF_vars(OnFaviconError("l1"))

\* The candidate generator called on its own, under every provider setting
GetFaviconCandidates(url) ==
    /\ last' = Call("getFaviconCandidates", NoLink, url, getFaviconCandidates(url, env), 0, {})
    /\ UNCHANGED <<ui, blob, ctx, store, now, ticks, driverVars>>

NextGen == \E url \in GenUrls : GetFaviconCandidates(url)

InitGen == InitWith(EnvValues)

SpecGen == InitGen /\ [][NextGen]_vars

----------------------------------------------------------------------------
(* The persisted value as safeParse finds it. While blob is "map", store holds *)
(* the entries of the map (a slot never written reads as the empty map); for   *)
(* every other kind store is empty.                                            *)

\* "malformed": text that is not JSON; "truncated": a map cut off by an interrupted write;
\* "null", "array", "number": JSON that parses to something that is not a domain map
BlobKinds == {"map", "malformed", "truncated", "null", "array", "number"}

Parsed(kind, entries) == [kind |-> kind, entries |-> entries]

\* Faulty variant: the SyntaxError of JSON.parse is not caught
safeParse_noCatch(b, entries) ==
    CASE b = "map" -> Parsed("object", entries)
      [] b \in {"malformed", "truncated"} -> Parsed("throw", <<>>)
      [] OTHER -> Parsed(b, <<>>)

\* safeParse(localStorage.getItem(CACHE_KEY)): {} for a value JSON.parse rejects,
\* otherwise whatever JSON.parse returns
safeParse(b, entries) ==
    CASE b = "map" -> Parsed("object", entries)
      [] b \in {"malformed", "truncated"} -> Parsed("object", <<>>)
      [] OTHER -> Parsed(b, <<>>)

readCache(b, entries) == safeParse(b, entries)

\* what a call leaves behind: the exception it raised ("" if none) and the persisted value
Outcome(raised, b, entries) == [raised |-> raised, blob |-> b, store |-> entries]

\* The read path of getCachedFavicon / isNegativeFaviconCached on the persisted value;
\* rejected: localStorage.setItem throws (quota exceeded, storage disabled)
ReadOn(b, entries, url, t, rejected) ==
    LET domain == getDomain(url)
        cache == readCache(b, entries)
    IN  IF domain = EmptyString THEN Outcome("", b, entries)
        ELSE IF cache.kind = "throw" THEN Outcome("SyntaxError", b, entries)
        ELSE IF cache.kind = "null" THEN Outcome("TypeError", b, entries)
        ELSE IF cache.kind # "object" THEN Outcome("", b, entries)
        ELSE IF HasKey(cache.entries, domain) /\ isExpired(Lookup(cache.entries, domain), t)
             THEN IF rejected THEN Outcome("QuotaExceededError", b, entries)
                  ELSE Outcome("", "map", Delete(cache.entries, domain))
        ELSE Outcome("", b, entries)

\* rememberFavicon (ok) / rememberFaviconFailure (~ok) on the persisted value
WriteOn(b, entries, url, src, ok, provider, t, rejected) ==
    LET domain == getDomain(url)
        cache == readCache(b, entries)
    IN  IF domain = EmptyString \/ (ok /\ src = EmptyString) THEN Outcome("", b, entries)
        ELSE IF cache.kind = "throw" THEN Outcome("SyntaxError", b, entries)
        ELSE IF cache.kind \in {"null", "number"} THEN Outcome("TypeError", b, entries)
        ELSE IF rejected THEN Outcome("QuotaExceededError", b, entries)
        ELSE IF cache.kind = "array" THEN Outcome("", "array", <<>>)
        ELSE Outcome("", "map",
                     IF ok THEN rememberFavicon(cache.entries, url, src, provider, t)
                     ELSE rememberFaviconFailure(cache.entries, url, provider, t))

\* Record of a call on the persisted value: the kind of value it found, the exception raised
CallOn(before, op, link, url, ret, raised, dropped) ==
    [op |-> op, link |-> link, url |-> url, ret |-> ret, nfail |-> 0, dropped |-> dropped,
     before |-> before, raised |-> raised]

StorageGetCachedFavicon(url, rejected) ==
    LET out == ReadOn(blob, store, url, now, rejected) IN
    /\ blob' = out.blob
    /\ store' = out.store
    /\ last' = CallOn(blob, "getCachedFavicon", NoLink, url,
                       IF out.raised = "" THEN getCachedFavicon(store, url, now) ELSE Null,
                       out.raised, Keys(store) \ Keys(out.store))
    /\ UNCHANGED <<ui, ctx, now, ticks, driverVars>>

StorageIsNegativeFaviconCached(url, rejected) ==
    LET out == ReadOn(blob, store, url, now, rejected) IN
    /\ blob' = out.blob
    /\ store' = out.store
    /\ last' = CallOn(blob, "isNegativeFaviconCached", NoLink, url,
                       IF out.raised = "" THEN isNegativeFaviconCached(store, url, now) ELSE FALSE,
                       out.raised, Keys(store) \ Keys(out.store))
    /\ UNCHANGED <<ui, ctx, now, ticks, driverVars>>

StorageRememberFavicon(url, src, rejected) ==
    LET out == WriteOn(blob, store, url, src, TRUE, "unknown", now, rejected) IN
    /\ blob' = out.blob
    /\ store' = out.store
    /\ last' = CallOn(blob, "rememberFavicon", NoLink, url, src, out.raised,
                       Keys(store) \ Keys(out.store))
    /\ UNCHANGED <<ui, ctx, now, ticks, driverVars>>

StorageRememberFaviconFailure(url, rejected) ==
    LET out == WriteOn(blob, store, url, EmptyString, FALSE, "chain-exhausted", now, rejected) IN
    /\ blob' = out.blob
    /\ store' = out.store
    /\ last' = CallOn(blob, "rememberFaviconFailure", NoLink, url, EmptyString, out.raised,
                       Keys(store) \ Keys(out.store))
    /\ UNCHANGED <<ui, ctx, now, ticks, driverVars>>

\* getFaviconSrc: getCachedFavicon is called without a try
StorageGetFaviconSrc(id, rejected) ==
    LET out == ReadOn(blob, store, LinkUrl(id), now, rejected) IN
    /\ blob' = out.blob
    /\ store' = out.store
    /\ last' = CallOn(blob, "getFaviconSrc", id, LinkUrl(id),
                       IF out.raised = "" THEN getFaviconSrc(id, store, now) ELSE Null,
                       out.raised, Keys(store) \ Keys(out.store))
    /\ UNCHANGED <<ui, ctx, now, ticks, driverVars>>

\* onLoad of the img element: rememberFavicon is called without a try
StorageOnFaviconLoad(id, src, rejected) ==
    LET out == WriteOn(blob, store, LinkUrl(id), src, TRUE, "unknown", now, rejected) IN
    /\ blob' = out.blob
    /\ store' = out.store
    /\ last' = CallOn(blob, "onFaviconLoad", id, LinkUrl(id), src, out.raised,
                       Keys(store) \ Keys(out.store))
    /\ UNCHANGED <<ui, ctx, now, ticks, driverVars>>

\* onFaviconError: an exception of rememberFaviconFailure leaves the state updater
\* before it returns, so the counter keeps its value
StorageOnFaviconError(id, rejected) ==
    LET candidates == getFaviconCandidates(LinkUrl(id), env)
        nextIndex == IndexOfLink(id) + 1
        failed == Exhausts(nextIndex, candidates)
        out == IF failed
               THEN WriteOn(blob, store, LinkUrl(id), EmptyString, FALSE, "chain-exhausted", now, rejected)
               ELSE Outcome("", blob, store)
    IN  /\ blob' = out.blob
        /\ store' = out.store
        /\ faviconIndexById' =
              IF out.raised # "" THEN faviconIndexById
              ELSE SetIndex(faviconIndexById, id, ClampIndex(nextIndex, candidates))
        /\ last' = CallOn(blob, "onFaviconError", id, LinkUrl(id), EmptyString, out.raised,
                           Keys(store) \ Keys(out.store))
        /\ UNCHANGED <<ui, ctx, now, ticks, env, errs, fails>>

StorageUrls == {Url(<<"www", "a", "com">>, "/x"), Url(<<"b", "org">>, "/"), Absent}

\* One clock step is enough here: after it every entry is expired
NextStorage ==
    \/ Tick({SUCCESS_TTL_MS + 1})
    \/ \E url \in StorageUrls, rejected \in BOOLEAN : StorageGetCachedFavicon(url, rejected)
    \/ \E url \in StorageUrls, rejected \in BOOLEAN : StorageIsNegativeFaviconCached(url, rejected)
    \/ \E url \in StorageUrls, src \in {TabIcon, EmptyString}, rejected \in BOOLEAN :
          StorageRememberFavicon(url, src, rejected)
    \/ \E url \in StorageUrls, rejected \in BOOLEAN : StorageRememberFaviconFailure(url, rejected)
    \/ \E id \in LinkIds, rejected \in BOOLEAN : StorageGetFaviconSrc(id, rejected)
    \/ \E id \in LinkIds, rejected \in BOOLEAN :
          \E src \in ShownSrcs(id) : StorageOnFaviconLoad(id, src, rejected)
    \/ \E id \in LinkIds, rejected \in BOOLEAN : StorageOnFaviconError(id, rejected)

\* The page is loaded with any kind of value in the slot
InitStorage ==
    /\ store = <<>>
    /\ now = StartTime
    /\ ticks = 0
    /\ env = "direct"
    /\ faviconIndexById = [id \in {} |-> 0]
    /\ errs = [l \in LinkIds |-> 0]
    /\ fails = [l \in LinkIds |-> 0]
    /\ last = Call("init", NoLink, Absent, Null, 0, {})
    /\ ctx = [c \in Contexts |-> Idle]
    /\ blob \in BlobKinds
    /\ ui = InitUi

SpecStorage == InitStorage /\ [][NextStorage]_vars

----------------------------------------------------------------------------
(* NewTab.tsx: the operations that change the bookmark tree. A handler is one  *)
(* step; the busy flags that keep a handler from running twice are therefore   *)
(* not modelled.                                                               *)

faviconVars == <<store, now, ticks, env, faviconIndexById, errs, fails, last, ctx, blob>>

\* the links of a collection
Children(id) == {n \in ui.nodes : ui.parentOf[n] = id}

\* context menu: "delete bookmark" / "delete group" opens the confirmation dialog
RequestDelete(kind, id) ==
    /\ id \in ui.nodes
    /\ kind = IF id \in Collections THEN "collection" ELSE "bookmark"
    /\ ui' = [ui EXCEPT !.deleteTarget = [kind |-> kind, id |-> id]]
    /\ UNCHANGED faviconVars

\* the dialog is closed without the delete button
CancelDelete ==
    /\ ui.deleteTarget # NoTarget
    /\ ui' = [ui EXCEPT !.deleteTarget = NoTarget]
    /\ UNCHANGED faviconVars

\* confirmDelete: the delete button of the dialog that names the target
ConfirmDelete ==
    LET target == ui.deleteTarget IN
    /\ target # NoTarget
    /\ ui' = [ui EXCEPT
                !.nodes = IF target.kind = "collection"
                          THEN @ \ ({target.id} \cup Children(target.id))
                          ELSE @ \ {target.id},
                !.api = ApiCall(IF target.kind = "collection" THEN "removeTree" ELSE "remove",
                                target.id, TRUE),
                !.deleteTarget = NoTarget,
                !.editingBookmark = IF @.id \in ({target.id} \cup
                                        (IF target.kind = "collection" THEN Children(target.id) ELSE {}))
                                    THEN NoEdit ELSE @]
    /\ UNCHANGED faviconVars

\* startBookmarkEdit: only a link with a URL
StartBookmarkEdit(id) ==
    /\ id \in ui.nodes
    /\ id \notin Collections
    /\ ui' = [ui EXCEPT !.editingBookmark = [id |-> id, parentId |-> ui.parentOf[id]]]
    /\ UNCHANGED faviconVars

cancelBookmarkEdit(u) == [u EXCEPT !.editingBookmark = NoEdit]

CancelBookmarkEdit ==
    /\ ui.editingBookmark # NoEdit
    /\ ui' = cancelBookmarkEdit(ui)
    /\ UNCHANGED faviconVars

\* saveBookmarkEdit (Enter, or the editor losing the focus): a changed bookmark is
\* created anew and the original is removed
SaveBookmarkEdit(emptyUrl, changed) ==
    LET editing == ui.editingBookmark
        newId == 100 + ui.created + 1
    IN  /\ editing # NoEdit
        /\ IF emptyUrl \/ ~changed
           THEN ui' = cancelBookmarkEdit(ui)
           ELSE /\ ui.created < MaxCreated
                /\ ui' = cancelBookmarkEdit(
                            [ui EXCEPT
                               !.nodes = (@ \cup {newId}) \ {editing.id},
                               !.parentOf = [@ EXCEPT ![newId] = editing.parentId],
                               !.created = @ + 1,
                               !.deleteTarget = IF @.id = editing.id THEN NoTarget ELSE @,
                               !.api = ApiCall("remove", editing.id, FALSE)])
        /\ UNCHANGED faviconVars

\* onDropCollectionToWorkspace: a dragged collection is dropped on a workspace of the rail
OnDropCollectionToWorkspace(collectionId, targetWorkspace) ==
    /\ collectionId \in ui.nodes
    /\ ui' = IF ui.parentOf[collectionId] = targetWorkspace THEN ui
             ELSE [ui EXCEPT
                     !.parentOf = [@ EXCEPT ![collectionId] = targetWorkspace],
                     !.api = ApiCall("move", collectionId, FALSE)]
    /\ UNCHANGED faviconVars

NextBookmarks ==
    \/ \E kind \in {"bookmark", "collection"}, id \in NodeIds : RequestDelete(kind, id)
    \/ CancelDelete
    \/ ConfirmDelete
    \/ \E id \in NodeIds : StartBookmarkEdit(id)
    \/ CancelBookmarkEdit
    \/ \E emptyUrl \in BOOLEAN, changed \in BOOLEAN : SaveBookmarkEdit(emptyUrl, changed)
    \/ \E c \in Collections, w \in Workspaces : OnDropCollectionToWorkspace(c, w)

SpecBookmarks == InitCache /\ [][NextBookmarks]_vars

----------------------------------------------------------------------------
(* saveBookmarkEdit step by step: the handler awaits chrome.bookmarks.create and *)
(* then chrome.bookmarks.remove, and the page reacts to the user in between.     *)
(* One save is in flight at a time.                                              *)

\* await chrome.bookmarks.create({ parentId, index, title, url })
createReplacement(u, editing, newId) ==
    [u EXCEPT !.nodes = @ \cup {newId},
              !.parentOf = [@ EXCEPT ![newId] = editing.parentId],
              !.created = @ + 1,
              !.save = [@ EXCEPT !.created = TRUE]]

\* await chrome.bookmarks.remove(editingBookmark.id)
removeOriginal(u, id) ==
    [u EXCEPT !.nodes = @ \ {id},
              !.api = ApiCall("remove", id, FALSE),
              !.save = [@ EXCEPT !.removed = TRUE]]

\* Faulty variant: the original is removed first
FirstCall_remove(u, editing, newId) == removeOriginal(u, editing.id)

\* the first of the two calls of saveBookmarkEdit
FirstCall(u, editing, newId) == createReplacement(u, editing, newId)

\* saveBookmarkEdit up to the end of its first await; createRejects: chrome.bookmarks
\* rejects the create (a URL it does not accept), the handler ends with the exception
BeginSaveBookmarkEdit(emptyUrl, changed, createRejects) ==
    LET editing == ui.editingBookmark
        newId == 100 + ui.created + 1
        call == [NoSave EXCEPT !.old = editing.id, !.new = newId,
                               !.emptyUrl = emptyUrl, !.changed = changed]
    IN  /\ editing # NoEdit
        /\ ~ui.editingBookmarkBusy
        /\ ui.save.pc = "idle"
        /\ IF emptyUrl \/ ~changed
           THEN ui' = [cancelBookmarkEdit(ui) EXCEPT !.save = call]
           ELSE IF createRejects
           THEN ui' = [ui EXCEPT !.editingBookmarkBusy = TRUE, !.save = call]
           ELSE /\ ui.created < MaxCreated
                /\ ui' = [FirstCall([ui EXCEPT !.editingBookmarkBusy = TRUE, !.save = call],
                                    editing, newId)
                            EXCEPT !.save = [@ EXCEPT !.pc = "created"]]
        /\ UNCHANGED faviconVars

\* the rest of saveBookmarkEdit: remove the original (rejected when it is gone already,
\* and then the handler ends there), refresh, cancelBookmarkEdit
FinishSaveBookmarkEdit ==
    /\ ui.save.pc = "created"
    /\ ui' = IF ui.save.old \in ui.nodes
             THEN [cancelBookmarkEdit(removeOriginal(ui, ui.save.old)) EXCEPT
                      !.editingBookmarkBusy = FALSE,
                      !.deleteTarget = IF @.id = ui.save.old THEN NoTarget ELSE @,
                      !.save = [@ EXCEPT !.pc = "idle"]]
             ELSE [ui EXCEPT !.api = ApiCall("remove", ui.save.old, FALSE),
                             !.save = [@ EXCEPT !.pc = "idle"]]
    /\ UNCHANGED faviconVars

\* Escape in the editor: cancelBookmarkEdit also clears the busy flag
EscapeBookmarkEdit ==
    /\ ui.editingBookmark # NoEdit
    /\ ui' = [cancelBookmarkEdit(ui) EXCEPT !.editingBookmarkBusy = FALSE]
    /\ UNCHANGED faviconVars

NextEdit ==
    \/ \E id \in NodeIds : StartBookmarkEdit(id)
    \/ EscapeBookmarkEdit
    \/ \E emptyUrl \in BOOLEAN, changed \in BOOLEAN, createRejects \in BOOLEAN :
          BeginSaveBookmarkEdit(emptyUrl, changed, createRejects)
    \/ FinishSaveBookmarkEdit
    \/ \E id \in NodeIds : RequestDelete("bookmark", id)
    \/ ConfirmDelete

SpecEdit == InitCache /\ [][NextEdit]_vars

----------------------------------------------------------------------------
(* lib/bookmark-consent.ts: the consent wrappers of the delete API *)

\* Faulty variant: the answer of the dialog is not looked at
Proceeds_always(answer) == TRUE

\* if (!ok) return { ok: false, reason: 'cancelled' }
Proceeds(answer) == answer

\* chrome.bookmarks.remove(id) is rejected for an unknown id and for a folder that
\* is not empty
RemoveRejects(id) == id \notin ui.nodes \/ Children(id) # {}

\* removeBookmarkWithUserConsent(id, title); answer is what window.confirm returns
RemoveBookmarkWithUserConsent(id, answer) ==
    /\ ui' = IF ~Proceeds(answer)
             THEN [ui EXCEPT !.result = Result("removeBookmarkWithUserConsent", id, answer, "cancelled")]
             ELSE IF RemoveRejects(id)
             THEN [ui EXCEPT
                     !.api = ApiCall("remove", id, answer),
                     !.result = Result("removeBookmarkWithUserConsent", id, answer, "threw")]
             ELSE [ui EXCEPT
                     !.nodes = @ \ {id},
                     !.api = ApiCall("remove", id, answer),
                     !.result = Result("removeBookmarkWithUserConsent", id, answer, "ok")]
    /\ UNCHANGED faviconVars

\* removeBookmarkTreeWithUserConsent(id, title)
RemoveBookmarkTreeWithUserConsent(id, answer) ==
    /\ ui' = IF ~Proceeds(answer)
             THEN [ui EXCEPT !.result = Result("removeBookmarkTreeWithUserConsent", id, answer, "cancelled")]
             ELSE IF id \notin ui.nodes
             THEN [ui EXCEPT
                     !.api = ApiCall("removeTree", id, answer),
                     !.result = Result("removeBookmarkTreeWithUserConsent", id, answer, "threw")]
             ELSE [ui EXCEPT
                     !.nodes = @ \ ({id} \cup Children(id)),
                     !.api = ApiCall("removeTree", id, answer),
                     !.result = Result("removeBookmarkTreeWithUserConsent", id, answer, "ok")]
    /\ UNCHANGED faviconVars

NextConsent ==
    \/ \E id \in Collections \cup Bookmarks, answer \in BOOLEAN : RemoveBookmarkWithUserConsent(id, answer)
    \/ \E id \in Collections, answer \in BOOLEAN : RemoveBookmarkTreeWithUserConsent(id, answer)

SpecConsent == InitCache /\ [][NextConsent]_vars

----------------------------------------------------------------------------
(* Properties of the resolution cache *)

Reads == {"getCachedFavicon", "isNegativeFaviconCached"}
Writes == {"rememberFavicon", "rememberFaviconFailure"}

\* TTL(ok) of the data model
TTL(ok) == IF ok THEN SUCCESS_TTL_MS ELSE FAILURE_TTL_MS

\* the entries of cache for domain d that are not expired at time t
Live(cache, d, t) ==
    {cache[i] : i \in {j \in 1..Len(cache) : cache[j].domain = d /\ t - cache[j].at <= TTL(cache[j].ok)}}

\* the entries of cache for domain d that are expired at time t
Stale(cache, d, t) ==
    {cache[i] : i \in {j \in 1..Len(cache) : cache[j].domain = d /\ t - cache[j].at > TTL(cache[j].ok)}}

\* C1: the persisted store never holds more than MAX_ENTRIES entries.
C1_StoreBounded == Len(store) <= MAX_ENTRIES

\* a write has just evicted an entry and the store is full
C1_Witness ==
    /\ last.op \in Writes
    /\ last.dropped # {}
    /\ Len(store) = MAX_ENTRIES

\* C2: a write that makes the store exceed MAX_ENTRIES leaves exactly MAX_ENTRIES
\* entries, the ones it had plus the written one minus exactly the excess, and
\* every evicted entry has at <= the at of every retained entry.
C2_Step ==
    LET d == getDomain(last'.url)
        before == {<<store[i].domain, store[i].at>> : i \in 1..Len(store)} \cup {<<d, now>>}
        after == {<<store'[i].domain, store'[i].at>> : i \in 1..Len(store')}
        evicted == before \ after
    IN  ( /\ last'.op \in Writes
          /\ d # EmptyString
          /\ last'.op = "rememberFavicon" => last'.ret # EmptyString
          /\ d \notin Keys(store)
          /\ Len(store) + 1 > MAX_ENTRIES )
        => /\ Len(store') = MAX_ENTRIES
           /\ after \subseteq before
           /\ Cardinality(evicted) = Len(store) + 1 - MAX_ENTRIES
           /\ \A e \in evicted, r \in after : e[2] <= r[2]

C2_PruneEvictsOldest == [][C2_Step]_vars

\* a write has just evicted an entry older than a retained one
C2_Witness ==
    /\ last.op \in Writes
    /\ last.dropped # {}
    /\ Len(store) = MAX_ENTRIES
    /\ \E i \in 1..Len(store) : store[i].at < now

\* C3: getCachedFavicon(url) returns the src of the entry of url's domain when
\* that entry exists, is not expired and has ok = TRUE, and null otherwise.
C3_Step ==
    last'.op = "getCachedFavicon" =>
        LET d == getDomain(last'.url)
            hits == {e \in Live(store, d, now) : e.ok}
        IN  IF d # EmptyString /\ hits # {}
            THEN \E e \in hits : last'.ret = e.src
            ELSE last'.ret = Null

C3_GetReturnsLivePositive == [][C3_Step]_vars

\* a read has just returned a cached address
C3_Witness ==
    /\ last.op = "getCachedFavicon"
    /\ last.ret # Null

\* C4: isNegativeFaviconCached(url) is true exactly when a non-expired entry
\* with ok = FALSE exists for url's domain.
C4_Step ==
    last'.op = "isNegativeFaviconCached" =>
        LET d == getDomain(last'.url)
        IN  last'.ret = (d # EmptyString /\ \E e \in Live(store, d, now) : ~e.ok)

C4_IsNegativeExact == [][C4_Step]_vars

\* the negative query has just answered true
C4_Witness ==
    /\ last.op = "isNegativeFaviconCached"
    /\ last.ret = TRUE

\* C5: a read of a domain whose entry is expired reports it absent and removes
\* that entry from the persisted store.
C5_Step ==
    LET d == getDomain(last'.url)
    IN  (last'.op \in Reads /\ Stale(store, d, now) # {})
        => /\ last'.ret = (IF last'.op = "getCachedFavicon" THEN Null ELSE FALSE)
           /\ d \notin Keys(store')

C5_ExpiredRemovedOnRead == [][C5_Step]_vars

\* a read has just removed the expired entry of the domain it asked for
C5_Witness ==
    /\ last.op \in Reads
    /\ last.dropped = {getDomain(last.url)}

\* C15: every entry of the store with ok = FALSE has the empty src.
C15_NegativeHasNoSrc ==
    \A i \in 1..Len(store) : ~store[i].ok => store[i].src = EmptyString

\* a failure has just been written, in place, over the entry of a domain in a full store
C15_Witness ==
    /\ last.op = "rememberFaviconFailure"
    /\ Len(store) = MAX_ENTRIES
    /\ store[1].domain = getDomain(last.url)
    /\ ~store[1].ok
    /\ store[1].at = now
    /\ store[2].at < now

\* the normalized domains of the URLs the cache is called with: lower case, no
\* leading "www.", whatever the path and query
Sites == { <<"a", "com">>, <<"b", "org">>, <<"c", "net">> }

SiteOf(url) ==
    CASE url.host \in { <<"www", "a", "com">>, <<"A", "com">> } -> <<"a", "com">>
      [] url.host = <<"b", "org">> -> <<"b", "org">>
      [] url.host = <<"c", "net">> -> <<"c", "net">>

\* C16: the store holds one entry per normalized domain (URLs that differ in path,
\* query, case or a leading "www." share it), and after a write the entry of the
\* written domain is exactly the one just written.
C16_OneEntryPerDomainLastWriteWins ==
    /\ \A i, j \in 1..Len(store) : store[i].domain = store[j].domain => i = j
    /\ Keys(store) \subseteq Sites
    /\ ( /\ last.op \in Writes
         /\ last.url.kind = "url"
         /\ last.op = "rememberFavicon" => last.ret # EmptyString )
       => \E i \in 1..Len(store) :
             /\ store[i].domain = SiteOf(last.url)
             /\ store[i].src = last.ret
             /\ store[i].ok = (last.op = "rememberFavicon")
             /\ store[i].at = now

\* a write through https://A.com/y?q=1 has just replaced, in place, the entry of a.com
C16_Witness ==
    /\ last.op \in Writes
    /\ last.url.host = <<"A", "com">>
    /\ Len(store) = MAX_ENTRIES
    /\ store[1].domain = <<"a", "com">>
    /\ store[1].at = now
    /\ store[2].at < now

\* the store without the timestamps
WithoutAt(cache) ==
    [i \in 1..Len(cache) |->
        [domain |-> cache[i].domain, src |-> cache[i].src, ok |-> cache[i].ok,
         provider |-> cache[i].provider]]

\* C17: rememberFavicon(u, src, p) called when the store already holds the entry an
\* earlier rememberFavicon(u, src, p) left changes nothing but that entry's
\* timestamp, which becomes the current time: one entry for the domain, same src,
\* ok = TRUE.
C17_Step ==
    LET d == getDomain(last'.url)
    IN  ( /\ last'.op = "rememberFavicon"
          /\ d # EmptyString
          /\ \E i \in 1..Len(store) :
                /\ store[i].domain = d
                /\ store[i].ok
                /\ store[i].src = last'.ret
                /\ store[i].provider = "unknown" )
        => /\ WithoutAt(store') = WithoutAt(store)
           /\ \A i \in 1..Len(store') :
                 store'[i].at = (IF store'[i].domain = d THEN now ELSE store[i].at)

C17_RepeatedRememberRefreshesAt == [][C17_Step]_vars

\* a success has just been written again, later, over the first entry of a full store
C17_Witness ==
    /\ last.op = "rememberFavicon"
    /\ last.ret # EmptyString
    /\ Len(store) = MAX_ENTRIES
    /\ store[1].domain = getDomain(last.url)
    /\ store[1].ok
    /\ store[1].at = now
    /\ store[2].at < now
    /\ store[2].ok

\* C18: with an absent or unparseable URL getCachedFavicon returns null,
\* isNegativeFaviconCached returns false and the two writes leave the store as it
\* is; rememberFavicon with the empty address leaves the store as it is.
C18_Step ==
    /\ (last'.op \in Reads \cup Writes /\ last'.url.kind # "url") => store' = store
    /\ (last'.op = "getCachedFavicon" /\ last'.url.kind # "url") => last'.ret = Null
    /\ (last'.op = "isNegativeFaviconCached" /\ last'.url.kind # "url") => last'.ret = FALSE
    /\ (last'.op = "rememberFavicon" /\ last'.ret = EmptyString) => store' = store

C18_UnusableInputIsNoOp == [][C18_Step]_vars

\* rememberFavicon has just been called with the empty address for a domain in the store
C18_Witness ==
    /\ last.op = "rememberFavicon"
    /\ last.ret = EmptyString
    /\ last.url.kind = "url"
    /\ getDomain(last.url) \in Keys(store)

\* C19: a domain that is in the store before a step and not after it was either read
\* while its entry was expired, or evicted by a write that made the store exceed
\* MAX_ENTRIES.
C19_Step ==
    \A d \in Keys(store) \ Keys(store') :
        \/ /\ last'.op \in Reads
           /\ getDomain(last'.url) = d
           /\ Stale(store, d, now) # {}
        \/ /\ last'.op \in Writes
           /\ getDomain(last'.url) \notin Keys(store) \cup {EmptyString}
           /\ Len(store) + 1 > MAX_ENTRIES

C19_LeavesOnlyByExpiryOrEviction == [][C19_Step]_vars

\* a write has just evicted an entry while an expired entry nobody read stays in the store
C19_Witness ==
    /\ last.op \in Writes
    /\ last.dropped # {}
    /\ \E i \in 1..Len(store) : now - store[i].at > TTL(store[i].ok)

\* C27: a failure entry expires strictly sooner than a success entry written at the
\* same instant: at no clock value is the success entry expired and the failure entry
\* not, and at some clock values the failure entry is expired and the success entry not.
C27_FailureExpiresFirst ==
    \A i, j \in 1..Len(store) :
        (store[i].ok /\ ~store[j].ok /\ store[i].at = store[j].at)
        => (isExpired(store[i], now) => isExpired(store[j], now))

\* a success and a failure written at the same instant, more than FAILURE_TTL_MS and
\* at most SUCCESS_TTL_MS ago: the failure is expired, the success is not
C27_Witness ==
    \E i, j \in 1..Len(store) :
        /\ store[i].ok /\ ~store[j].ok
        /\ store[i].at = store[j].at
        /\ now - store[j].at > FAILURE_TTL_MS
        /\ now - store[i].at <= SUCCESS_TTL_MS
        /\ isExpired(store[j], now)
        /\ ~isExpired(store[i], now)

\* C32: expiry is strict. A read of a domain whose entry has now - at exactly equal to
\* its TTL serves the entry (the address of a success, true for a failure) and leaves
\* the store as it is; one millisecond later the entry is expired: the read reports
\* nothing and removes it.
C32_Step ==
    LET d == getDomain(last'.url) IN
    (last'.op \in Reads /\ d # EmptyString /\ HasKey(store, d)) =>
        LET e == Lookup(store, d) IN
        /\ now - e.at = TTL(e.ok) =>
              /\ store' = store
              /\ last'.op = "getCachedFavicon" => last'.ret = (IF e.ok THEN e.src ELSE Null)
              /\ last'.op = "isNegativeFaviconCached" => last'.ret = ~e.ok
        /\ now - e.at = TTL(e.ok) + 1 =>
              /\ ~HasKey(store', d)
              /\ last'.op = "getCachedFavicon" => last'.ret = Null
              /\ last'.op = "isNegativeFaviconCached" => last'.ret = FALSE

C32_ExpiryIsStrict == [][C32_Step]_vars

\* a failure written exactly FAILURE_TTL_MS ago has just been reported and is still stored
C32_Witness ==
    /\ last.op = "isNegativeFaviconCached"
    /\ last.ret = TRUE
    /\ HasKey(store, getDomain(last.url))
    /\ now - Lookup(store, getDomain(last.url)).at = FAILURE_TTL_MS

\* C35: read-your-write. The entry a write has just stored is not the one the prune
\* that follows evicts, even in a full store whose entries all have the timestamp of
\* the write: right after rememberFavicon(u, src) getCachedFavicon(u) is src, right
\* after rememberFaviconFailure(u) isNegativeFaviconCached(u) is true.
C35_Step ==
    /\ ( /\ last'.op = "rememberFavicon"
         /\ getDomain(last'.url) # EmptyString
         /\ last'.ret # EmptyString )
       => getCachedFavicon(store', last'.url, now') = last'.ret
    /\ ( /\ last'.op = "rememberFaviconFailure"
         /\ getDomain(last'.url) # EmptyString )
       => isNegativeFaviconCached(store', last'.url, now')

C35_ReadYourWrite == [][C35_Step]_vars

\* a write into a full store has just evicted an entry, every entry left has the
\* timestamp of the write, and the entry written is among them
C35_Witness ==
    /\ last.op \in Writes
    /\ last.dropped # {}
    /\ Len(store) = MAX_ENTRIES
    /\ \A i \in 1..Len(store) : store[i].at = now
    /\ HasKey(store, getDomain(last.url))

\* C36: every entry of the store with ok = true has a non-empty src, whatever cache
\* operations were called with whatever arguments, so that getCachedFavicon returns
\* null or a non-empty address.
C36_PositiveHasSrc ==
    /\ \A i \in 1..Len(store) : store[i].ok => store[i].src # EmptyString
    /\ last.op = "getCachedFavicon" => last.ret # EmptyString

\* rememberFavicon has just been called with an empty address for a domain that has a
\* success entry: the entry still holds its address
C36_Witness ==
    /\ last.op = "rememberFavicon"
    /\ last.ret = EmptyString
    /\ HasKey(store, getDomain(last.url))
    /\ Lookup(store, getDomain(last.url)).ok
    /\ Lookup(store, getDomain(last.url)).src = TabIcon

----------------------------------------------------------------------------
(* Properties of the persisted value *)

\* the kinds of value JSON.parse rejects
Unparseable == {"malformed", "truncated"}

\* C21: a persisted value that does not parse behaves exactly like an empty store: the
\* reads return null / false without raising and leave the slot alone, and a write
\* that is carried out leaves a well-formed map holding exactly the entry written.
C21_Step ==
    (blob \in Unparseable /\ last'.op \in Reads \cup Writes) =>
        /\ last'.raised \in {"", "QuotaExceededError"}
        /\ last'.op \in Reads => (last'.raised = "" /\ blob' = blob /\ store' = store)
        /\ last'.op = "getCachedFavicon" => last'.ret = Null
        /\ last'.op = "isNegativeFaviconCached" => last'.ret = FALSE
        /\ (/\ last'.op \in Writes
            /\ last'.raised = ""
            /\ getDomain(last'.url) # EmptyString
            /\ (last'.op = "rememberFavicon" => last'.ret # EmptyString))
           => /\ blob' = "map"
              /\ Len(store') = 1
              /\ store'[1].domain = getDomain(last'.url)
              /\ store'[1].src = last'.ret
              /\ store'[1].at = now
              /\ store'[1].ok = (last'.op = "rememberFavicon")

C21_UnparseableActsAsEmpty == [][C21_Step]_vars

\* a success was written over a truncated map: the slot holds that entry and nothing else
C21_Witness ==
    /\ last.op = "rememberFavicon"
    /\ last.before = "truncated"
    /\ last.raised = ""
    /\ blob = "map"
    /\ Len(store) = 1
    /\ store[1].ok

\* C22: no driver operation and no cache function raises to its caller, whatever the
\* slot holds and whether or not the storage accepts the write.
C22_NothingRaises ==
    last.op \notin {"init", "tick"} => last.raised = ""

----------------------------------------------------------------------------
(* Properties of two contexts sharing the store *)

\* C20: a lost update is reachable with two contexts. What makes it so: the write of a
\* context stores the map that context read plus its own entry and nothing else, so
\* every key the other context stored since that read is gone after the write.
C20_Step ==
    \A c \in Contexts :
        (ctx[c].pc = "write" /\ ctx'[c].pc = "idle")
        => Keys(store') \subseteq Keys(ctx[c].snap) \cup {getDomain(ctx[c].url)}

C20_WriteStoresOwnSnapshotOnly == [][C20_Step]_vars

\* the lost update: a context's write has just removed a key of the persisted store
\* although the map it wrote was below MAX_ENTRIES (no eviction) and nothing is read
\* (no expiry)
C20_Witness ==
    /\ last.op = "writeCache"
    /\ last.dropped # {}
    /\ Len(store) < MAX_ENTRIES

\* C38: the store invariants survive the race of two contexts: after every write the
\* store holds at most MAX_ENTRIES entries, one per domain, every failure entry has
\* src "", and every entry is whole, as one call built it (entries are lost, never
\* mixed).
C38_RaceKeepsInvariants ==
    /\ Len(store) <= MAX_ENTRIES
    /\ \A i, j \in 1..Len(store) : store[i].domain = store[j].domain => i = j
    /\ \A i \in 1..Len(store) :
          /\ store[i].domain \in {getDomain(u) : u \in RaceUrls}
          /\ store[i].ok => (store[i].src = TabIcon /\ store[i].provider = "unknown")
          /\ ~store[i].ok => (store[i].src = EmptyString /\ store[i].provider = "chain-exhausted")

\* a context has just written a full store that holds a failure entry while the other
\* context is between its read and its write, with a snapshot that is out of date
C38_Witness ==
    /\ last.op = "writeCache"
    /\ Len(store) = MAX_ENTRIES
    /\ \E i \in 1..Len(store) : ~store[i].ok
    /\ \E c \in Contexts : ctx[c].pc = "write" /\ ctx[c].snap # store /\ ctx[c].snap # <<>>

----------------------------------------------------------------------------
(* Properties of the resolution driver *)

Candidates(id) == getFaviconCandidates(LinkUrl(id), env)
Range(seq) == {seq[i] : i \in 1..Len(seq)}

\* a non-expired negative entry exists for the link's domain
NegativeLive(id) == \E e \in Live(store, getDomain(LinkUrl(id)), now) : ~e.ok

\* C6: for a link with N >= 1 candidates, the N-th onFaviconError since the counter
\* was fresh is the one and only call that records the failure, and the negative
\* entry of the link's domain is live afterwards.
C6_ExhaustionWritesOnce ==
    \A id \in LinkIds :
        ( /\ Len(Candidates(id)) >= 1
          /\ last.op = "onFaviconError"
          /\ last.link = id
          /\ errs[id] = Len(Candidates(id)) )
        => /\ fails[id] = 1
           /\ last.nfail = 1
           /\ NegativeLive(id)

\* the fifth failure of the five candidates of the chain, written into a full store
C6_Witness ==
    /\ last.op = "onFaviconError"
    /\ last.link = "l1"
    /\ Len(Candidates("l1")) = 5
    /\ errs["l1"] = 5
    /\ last.dropped # {}

\* C7: once a link is exhausted, a further onFaviconError for it does not call
\* rememberFaviconFailure again.
C7_NoSecondFailureWrite ==
    \A id \in LinkIds :
        ( /\ Len(Candidates(id)) >= 1
          /\ last.op = "onFaviconError"
          /\ last.link = id
          /\ errs[id] > Len(Candidates(id)) )
        => last.nfail = 0

\* C8: while a non-expired negative entry exists for the link's domain, getFaviconSrc
\* of a link whose counter is at its initial value returns no remote candidate.
C8_NegativeEntryStopsRetry ==
    \A id \in LinkIds :
        ( /\ last.op = "getFaviconSrc"
          /\ last.link = id
          /\ id \notin DOMAIN faviconIndexById
          /\ NegativeLive(id) )
        => last.ret \notin Range(Candidates(id))

\* C9: after every candidate of a link has failed, getFaviconSrc returns a
\* placeholder and not one of the candidates that failed.
C9_PlaceholderWhenExhausted ==
    \A id \in LinkIds :
        ( /\ last.op = "getFaviconSrc"
          /\ last.link = id
          /\ Len(Candidates(id)) >= 1
          /\ errs[id] >= Len(Candidates(id))
          /\ NegativeLive(id) )
        => last.ret \notin Range(Candidates(id))

\* the non-expired success entries of the link's domain
PositiveLive(id) == {e \in Live(store, getDomain(LinkUrl(id)), now) : e.ok}

\* C11: getFaviconSrc returns the cached address when there is one, otherwise the
\* candidate at the link's attempt index, or the first candidate when that index is
\* out of range; the result is always the cached src or one of the candidates.
C11_SrcIsCachedOrCandidate ==
    \A id \in LinkIds :
        (last.op = "getFaviconSrc" /\ last.link = id) =>
            LET cands == Candidates(id)
                i == IndexOfLink(id)
            IN  /\ PositiveLive(id) # {} => \E e \in PositiveLive(id) : last.ret = e.src
                /\ (PositiveLive(id) = {} /\ i < Len(cands)) => last.ret = cands[i + 1]
                /\ (PositiveLive(id) = {} /\ i >= Len(cands) /\ Len(cands) >= 1)
                       => last.ret = cands[1]
                /\ last.ret \in {e.src : e \in PositiveLive(id)} \cup Range(cands)

\* C12: the attempt counter of every link is within [0, max(0, candidates.length - 1)].
C12_CounterInRange ==
    \A id \in LinkIds :
        /\ IndexOfLink(id) >= 0
        /\ IndexOfLink(id) <= Max(0, Len(Candidates(id)) - 1)

\* both links have had more failures than candidates: the chain link is at its last
\* candidate, the link without candidates at 0
C12_Witness ==
    /\ Len(Candidates("l1")) = 5
    /\ errs["l1"] > 5
    /\ faviconIndexById["l1"] = 4
    /\ errs["l2"] >= 1
    /\ faviconIndexById["l2"] = 0

\* C13: once a positive entry exists for a link's domain, an onFaviconError for that
\* link neither replaces nor removes it.
C13_Step ==
    \A id \in LinkIds :
        ( /\ last'.op = "onFaviconError"
          /\ last'.link = id
          /\ PositiveLive(id) # {} )
        => \A e \in PositiveLive(id) : \E i \in 1..Len(store') : store'[i] = e

C13_ResolvedIsTerminal == [][C13_Step]_vars

\* C14: an onFaviconError for a link whose counter i has i + 1 <= last candidate index
\* moves the counter to i + 1, records no failure and leaves the store unchanged.
C14_Step ==
    \A id \in LinkIds :
        ( /\ last'.op = "onFaviconError"
          /\ last'.link = id
          /\ IndexOfLink(id) + 1 <= Len(Candidates(id)) - 1 )
        => /\ id \in DOMAIN faviconIndexById'
           /\ faviconIndexById'[id] = IndexOfLink(id) + 1
           /\ last'.nfail = 0
           /\ store' = store

C14_AdvanceKeepsCache == [][C14_Step]_vars

\* the chain link has just moved to its fourth candidate while the cache holds entries
C14_Witness ==
    /\ last.op = "onFaviconError"
    /\ last.link = "l1"
    /\ last.nfail = 0
    /\ faviconIndexById["l1"] = 3
    /\ store # <<>>

\* C28: the attempt counter is per link: an onFaviconError for one link leaves the
\* counter of every other link as it was, and after a reload every link is at attempt
\* index 0 whatever the store holds; a link that has no counter yet is at index 0.
C28_Step ==
    /\ \A id \in LinkIds :
          (last'.op = "onFaviconError" /\ last'.link = id)
          => \A x \in LinkIds \ {id} :
                /\ (x \in DOMAIN faviconIndexById') = (x \in DOMAIN faviconIndexById)
                /\ (x \in DOMAIN faviconIndexById => faviconIndexById'[x] = faviconIndexById[x])
    /\ last'.op = "reload" => \A id \in LinkIds : id \notin DOMAIN faviconIndexById'

C28_CounterIsPerLink == [][C28_Step]_vars

\* the link without a URL has just failed while the other link is at its third candidate
C28_Witness ==
    /\ last.op = "onFaviconError"
    /\ last.link = "l2"
    /\ "l1" \in DOMAIN faviconIndexById
    /\ faviconIndexById["l1"] = 2
    /\ faviconIndexById["l2"] = 0

\* C37: within a session (no reload) the attempt counter of a link never decreases,
\* whatever happens: load successes, reads, expiry or eviction of the link's entry.
C37_Step ==
    last'.op # "reload" =>
        \A id \in LinkIds :
            /\ id \in DOMAIN faviconIndexById => id \in DOMAIN faviconIndexById'
            /\ (IF id \in DOMAIN faviconIndexById' THEN faviconIndexById'[id] ELSE 0)
                  >= IndexOfLink(id)

C37_CounterNeverDecreases == [][C37_Step]_vars

\* the chain link is at its last candidate after five failures, and a read has just
\* removed its expired negative entry
C37_Witness ==
    /\ env = ""
    /\ last.op = "getFaviconSrc"
    /\ last.link = "l1"
    /\ last.dropped = {getDomain(LinkUrl("l1"))}
    /\ fails["l1"] >= 1
    /\ IndexOfLink("l1") = 4

\* C34: a read (getCachedFavicon, isNegativeFaviconCached, getFaviconSrc) changes no
\* attempt counter, adds or changes no entry, leaves every entry of another domain in
\* the store even when it is expired, and leaves the entry of the domain it asked for
\* in the store unless it is expired.
C34_Step ==
    LET d == getDomain(last'.url) IN
    (last'.op \in Reads \cup {"getFaviconSrc"}) =>
        /\ faviconIndexById' = faviconIndexById
        /\ Range(store') \subseteq Range(store)
        /\ \A i \in 1..Len(store) :
              (store[i].domain # d \/ now - store[i].at <= TTL(store[i].ok))
              => store[i] \in Range(store')

C34_ReadsHaveBoundedFootprint == [][C34_Step]_vars

\* getFaviconSrc of the link with a URL, its counter at the second candidate, has just
\* run over a store that holds an expired entry of another domain
C34_Witness ==
    /\ last.op = "getFaviconSrc"
    /\ last.link = "l1"
    /\ IndexOfLink("l1") = 1
    /\ \E i \in 1..Len(store) :
          /\ store[i].domain # getDomain(LinkUrl("l1"))
          /\ now - store[i].at > TTL(store[i].ok)

\* C33: a link with a valid URL whose loads keep failing and never succeed reaches
\* Exhausted after finitely many onFaviconError calls: a negative entry of its domain
\* is in the store at some point, and from some point on the counter stays at the
\* last candidate index.
C33_EventuallyExhausted ==
    /\ <>(\E i \in 1..Len(store) :
             store[i].domain = getDomain(LinkUrl("l1")) /\ ~store[i].ok)
    /\ <>[](IndexOfLink("l1") = Len(Candidates("l1")) - 1)

\* the fifth failure of the chain link: the failure has been recorded once, the counter
\* is at the last of the five candidates
C33_Witness ==
    /\ env = ""
    /\ errs["l1"] = 5
    /\ fails["l1"] = 1
    /\ IndexOfLink("l1") = 4
    /\ NegativeLive("l1")

----------------------------------------------------------------------------
(* Properties of the candidate generator *)

\* C10: getFaviconCandidates(url) is never empty.
C10_CandidatesNonEmpty ==
    last.op = "getFaviconCandidates" => Len(last.ret) >= 1

\* the URLs of GenUrls that have a normalized domain, and that domain: the host in
\* lower case without one leading "www."
GenSite(url) ==
    CASE url.host \in { <<"www", "a", "com">>, <<"A", "com">>, <<"a", "com">> } -> <<"a", "com">>
      [] url.host \in { <<"b", "org">>, <<"WWW", "b", "org">> } -> <<"b", "org">>
      [] url.host = <<"c", "net">> -> <<"c", "net">>
      [] url.host = <<"www", "www", "c", "net">> -> <<"www", "c", "net">>
      [] url.host = <<"www">> -> <<"www">>
      [] url.host = <<"[::1]">> -> <<"[::1]">>
      [] OTHER -> <<>>

ValidUrl(url) == url.kind = "url" /\ GenSite(url) # <<>>

\* the domain as it appears in a query string or path segment
EncodedSite(url) ==
    IF GenSite(url) = <<"[::1]">> THEN <<"%5B%3A%3A1%5D">> ELSE GenSite(url)

\* an address of the site itself: https://<domain>/...
FirstParty(address, url) ==
    /\ Len(address) = Len(GenSite(url)) + 2
    /\ address[1] = "https://"
    /\ SubSeq(address, 2, Len(GenSite(url)) + 1) = GenSite(url)

GoogleAddress(url) ==
    <<"https://www.google.com/s2/favicons?domain=">> \o EncodedSite(url) \o <<"&sz=", "32">>
DuckAddress(url) ==
    <<"https://icons.duckduckgo.com/ip3/">> \o EncodedSite(url) \o <<".ico">>
RaycastAddress(url) ==
    <<"https://api.ray.so/favicon?url=">> \o EncodedSite(url) \o <<"&size=", "32">>

\* C23: in mode chain (configured, or by default) the candidates of a valid URL are the
\* two addresses of the site itself, then google's, then duckduckgo's, then raycast's.
C23_ChainOrder ==
    ( /\ last.op = "getFaviconCandidates"
      /\ env \in {"", "chain"}
      /\ ValidUrl(last.url) )
    => /\ Len(last.ret) = 5
       /\ FirstParty(last.ret[1], last.url)
       /\ FirstParty(last.ret[2], last.url)
       /\ last.ret[1] # last.ret[2]
       /\ last.ret[3] = GoogleAddress(last.url)
       /\ last.ret[4] = DuckAddress(last.url)
       /\ last.ret[5] = RaycastAddress(last.url)

C23_Witness ==
    /\ last.op = "getFaviconCandidates"
    /\ env = "chain"
    /\ last.url.host = <<"WWW", "b", "org">>
    /\ Len(last.ret) = 5
    /\ last.ret[1][1] = "https://"

\* C24: in a single-provider mode the candidates of a valid URL are that provider's
\* only: direct gives /favicon.ico and /apple-touch-icon.png of the domain, and google,
\* duckduckgo and raycast give one address each, built from the domain without its
\* leading "www." (with size 32 for google and raycast).
C24_SingleProvider ==
    ( /\ last.op = "getFaviconCandidates"
      /\ ValidUrl(last.url) )
    => /\ env = "direct" =>
            last.ret = << <<"https://">> \o GenSite(last.url) \o <<"/favicon.ico">>,
                          <<"https://">> \o GenSite(last.url) \o <<"/apple-touch-icon.png">> >>
       /\ env = "google" => last.ret = << GoogleAddress(last.url) >>
       /\ env = "duckduckgo" => last.ret = << DuckAddress(last.url) >>
       /\ env = "raycast" => last.ret = << RaycastAddress(last.url) >>

\* google mode, https://www.a.com/x: one address with domain=a.com and sz=32
C24_Witness ==
    /\ last.op = "getFaviconCandidates"
    /\ env = "google"
    /\ last.url = Url(<<"www", "a", "com">>, "/x")
    /\ last.ret = << <<"https://www.google.com/s2/favicons?domain=", "a", "com", "&sz=", "32">> >>

\* the first piece of every address the generator can build for a remote host
RemotePrefixes ==
    { "https://", "https://www.google.com/s2/favicons?domain=",
      "https://icons.duckduckgo.com/ip3/", "https://api.ray.so/favicon?url=" }

\* C25: in mode none the generator returns the placeholder only, for every URL: one
\* address, and not a remote one.
C25_NoneIsPlaceholderOnly ==
    ( /\ last.op = "getFaviconCandidates"
      /\ env = "none" )
    => /\ Len(last.ret) = 1
       /\ last.ret[1][1] \notin RemotePrefixes

\* C26: the candidates depend on the normalized domain and the mode only: two calls in
\* a row with valid URLs of the same domain return the same sequence.
C26_Step ==
    ( /\ last.op = "getFaviconCandidates"
      /\ last'.op = "getFaviconCandidates"
      /\ ValidUrl(last.url)
      /\ ValidUrl(last'.url)
      /\ GenSite(last.url) = GenSite(last'.url) )
    => last'.ret = last.ret

C26_DomainAndModeOnly == [][C26_Step]_vars

\* https://A.com/y?q=1 has just got the candidates https://www.a.com/x gets
C26_Witness ==
    /\ last.op = "getFaviconCandidates"
    /\ last.url = Url(<<"A", "com">>, "/y?q=1")
    /\ Len(last.ret) >= 1
    /\ last.ret = getFaviconCandidates(Url(<<"www", "a", "com">>, "/x"), env)

----------------------------------------------------------------------------
(* Properties of the bookmark tree *)

\* C29: no bookmark and no folder is removed unless the user confirmed the deletion of
\* that target beforehand: every chrome.bookmarks.remove / removeTree call is the
\* one the confirmation dialog of its target led to.
C29_RemoveOnlyAfterConfirm ==
    ui.api.fn \in {"remove", "removeTree"} => ui.api.confirmed

\* C30: the application never calls chrome.bookmarks.move or chrome.bookmarks.update.
C30_NoMoveNoUpdate ==
    ui.api.fn \notin {"move", "update"}

----------------------------------------------------------------------------
(* Properties of the consent wrappers *)

\* C31: the consent wrappers call the delete API only after the dialog returned true;
\* on cancel they return {ok: false, reason: 'cancelled'} and delete nothing, and
\* they return {ok: true} only after the delete call has completed.
C31_Step ==
    LET r == ui'.result IN
    /\ ~r.answer => (r.ret = "cancelled" /\ ui'.nodes = ui.nodes /\ ui'.api = ui.api)
    /\ r.ret = "cancelled" => ~r.answer
    /\ ui'.nodes # ui.nodes => (r.answer /\ ui'.api.confirmed)
    /\ r.ret = "ok" =>
          /\ r.answer
          /\ r.id \notin ui'.nodes
          /\ ui'.api.id = r.id
          /\ ui'.api.fn = IF r.fn = "removeBookmarkTreeWithUserConsent" THEN "removeTree" ELSE "remove"

C31_DeleteOnlyAfterConsent == [][C31_Step]_vars

\* a cancelled removal of the first collection after a confirmed removal of a bookmark:
\* the collection and its other bookmark are still there
C31_Witness ==
    /\ ui.result = Result("removeBookmarkTreeWithUserConsent", 11, FALSE, "cancelled")
    /\ ui.api = ApiCall("remove", 21, TRUE)
    /\ ui.nodes = {11, 12, 22}

----------------------------------------------------------------------------
(* Properties of saveBookmarkEdit *)

\* C39: saveBookmarkEdit creates the replacement before it removes the original: at no
\* point of an edit has the original been removed by it while the replacement has not
\* been created, and an edit that changes neither title nor URL, or leaves the URL
\* empty, creates nothing and removes nothing.
C39_Step ==
    /\ ui'.save.removed => ui'.save.created
    /\ ui'.save.created => (ui'.save.changed /\ ~ui'.save.emptyUrl)
    /\ ui'.created # ui.created => (ui'.save.created /\ ~ui'.save.removed /\ ui'.save.new \in ui'.nodes)
    /\ (ui'.api # ui.api /\ ~ui'.api.confirmed /\ ui'.api.id \notin ui'.nodes /\ ui'.api.id \in ui.nodes)
          => (ui'.save.removed /\ ui'.api.id = ui'.save.old)
    /\ (ui'.save # ui.save /\ ui'.save.pc = "idle" /\ (ui'.save.emptyUrl \/ ~ui'.save.changed))
          => (ui'.nodes = ui.nodes /\ ui'.api = ui.api /\ ui'.created = ui.created)

C39_CreateBeforeRemove == [][C39_Step]_vars

\* the save of an edit of bookmark 21 is between its two calls: the replacement exists
\* next to the original
C39_Witness ==
    /\ ui.save.pc = "created"
    /\ ui.save.old = 21
    /\ ui.save.created /\ ~ui.save.removed
    /\ {21, ui.save.new} \subseteq ui.nodes

====
